---- MODULE Spec2Model ----
(***************************************************************************)
(* The report pipeline of src/src/services/reportService.ts (the first,   *)
(* most complete variant, lines 1-518): parseNessusFile, mergeHosts,      *)
(* mergeAndCountVulnerabilities, calculateVulnerabilityTotals and         *)
(* generateReport.                                                        *)
(*                                                                         *)
(* A JavaScript string that the code takes apart is a sequence of         *)
(* one-character strings; a dotted address is kept as the sequence of its  *)
(* dot-separated segments, so that String.split('.') is the identity on   *)
(* the representation while Number() and parseInt() are real conversions. *)
(* A string the code only copies or compares is a TLA+ string, with ""    *)
(* for an absent (falsy) value.                                            *)
(***************************************************************************)
EXTENDS Integers, Sequences, FiniteSets

VARIABLES
    files,               \* generateReport's argument: the uploaded files
    pc,                  \* position of the generateReport invocation
    i,                   \* loop index of the file loop (1-based)
    reading,             \* the files whose parseNessusFile call is pending
    parsedHostArrays,    \* Host[][] collected by the file loop
    completedSteps,      \* progress counter
    progress,            \* the values passed to onProgress, in order
    mergedHosts,         \* result of mergeHosts
    vulnerabilityTotals, \* result of calculateVulnerabilityTotals
    sections,            \* the severity groups written to reportContent
    globalIndex,         \* running index of the vulnerability sections
    indexFiles,          \* Index: the files state
    appState,            \* Index: 'idle', 'generating', 'success' or 'error'
    reportBlob,          \* Index: the Blob of a run, or Null
    indexProgress,       \* Index: the progress state
    uploadFiles,         \* FileUpload: the files state
    inFlight,            \* the generateReport calls of Index not yet settled
    runs,                \* the generateReport calls Index has made
    lastResolved,        \* the last call that resolved, 0 when none has
    downloaded,          \* the Blob last handed to the browser, or Null
    events               \* the user's interactions with the page so far

\* the state of the Index page and its FileUpload
page == <<indexFiles, appState, reportBlob, indexProgress, uploadFiles,
          inFlight, runs, lastResolved, downloaded, events>>

vars == <<files, pc, i, reading, parsedHostArrays, completedSteps, progress,
          mergedHosts, vulnerabilityTotals, sections, globalIndex, page>>

(***************************************************************************)
(* Bounds of the model.                                                    *)
(***************************************************************************)
\* files handed to one generateReport invocation
MaxFiles == 2
\* ReportHost nodes in all files of one invocation
MaxHosts == 2
\* ReportItem nodes in all files of one invocation
MaxItems == 2
\* ReportHost nodes of one invocation in the host-ordering specification
MaxSortHosts == 3
\* files handed to one invocation in the progress specification
MaxManyFiles == 47
\* characters of a severity attribute in the severity specification
MaxSeverityLen == 3
\* interactions of the user with the Index page
MaxEvents == 6
\* files of the largest selection dropped on the FileUpload at once
MaxBatch == 49

(***************************************************************************)
(* JavaScript values.                                                      *)
(***************************************************************************)
\* the result of arithmetic on something that is not a number
NaN == 0 - 1000000
\* the value of a missing array element or property, where a number is read
UndefinedNum == 0 - 1000001
\* a property that is absent where a dotted string is expected: no segments
\* at all (a real string always splits into at least one segment)
Undefined == << >>
\* the empty string as a dotted string: one empty segment
EmptyString == << << >> >>
\* null where a Blob is expected; a Blob is the number of the run it is of
Null == 0

Digits == {"0", "1", "2", "3", "4", "5", "6", "7", "8", "9"}

DigitVal(c) ==
    CASE c = "0" -> 0 [] c = "1" -> 1 [] c = "2" -> 2 [] c = "3" -> 3
      [] c = "4" -> 4 [] c = "5" -> 5 [] c = "6" -> 6 [] c = "7" -> 7
      [] c = "8" -> 8 [] c = "9" -> 9

RECURSIVE DecimalValue(_)
DecimalValue(s) ==
    IF s = << >> THEN 0
    ELSE 10 * DecimalValue(SubSeq(s, 1, Len(s) - 1)) + DigitVal(s[Len(s)])

\* Number(s) for a string of the characters used here: decimal digits give
\* their value, the empty string gives 0, anything else gives NaN
Number(s) ==
    IF \A k \in 1..Len(s) : s[k] \in Digits THEN DecimalValue(s) ELSE NaN

RECURSIVE DigitPrefix(_)
DigitPrefix(s) ==
    IF s = << >> \/ Head(s) \notin Digits THEN << >>
    ELSE <<Head(s)>> \o DigitPrefix(Tail(s))

\* parseInt(s) for a string without white space, "+" or a 0x prefix: an
\* optional "-", then the longest prefix of digits; NaN when there is no digit
ParseInt(s) ==
    LET neg == s /= << >> /\ Head(s) = "-"
        body == IF neg THEN Tail(s) ELSE s
        ds == DigitPrefix(body)
    IN  IF ds = << >> THEN NaN
        ELSE IF neg THEN 0 - DecimalValue(ds) ELSE DecimalValue(ds)

\* x || y on dotted strings: undefined and '' are falsy
OrElse(x, y) == IF x = Undefined \/ x = EmptyString THEN y ELSE x

\* x || y on plain strings
OrElseStr(x, y) == IF x = "" THEN y ELSE x

\* x || y on strings kept as character sequences
OrElseChars(x, y) == IF x = << >> THEN y ELSE x

\* parseFloat(s) in tenths, for strings with at most one decimal place (CVSS
\* scores): the longest numeric prefix, NaN when the string starts with
\* neither a digit nor a point followed by a digit
ParseFloat(s) ==
    LET int == DigitPrefix(s)
        rest == SubSeq(s, Len(int) + 1, Len(s))
        frac == IF rest /= << >> /\ Head(rest) = "."
                THEN DigitPrefix(Tail(rest)) ELSE << >>
    IN  IF int = << >> /\ frac = << >> THEN NaN
        ELSE 10 * DecimalValue(int)
             + (IF frac = << >> THEN 0 ELSE DigitVal(frac[1]))

\* the sign Array.prototype.sort reads from a comparator result: NaN is +0
Sign(v) == IF v = NaN \/ v = 0 THEN 0 ELSE IF v < 0 THEN 0 - 1 ELSE 1

\* x - y on numbers, undefined and NaN
Minus(x, y) ==
    IF x \in {NaN, UndefinedNum} \/ y \in {NaN, UndefinedNum} THEN NaN
    ELSE x - y

\* x !== y on numbers, undefined and NaN
StrictNotEqual(x, y) == x = NaN \/ y = NaN \/ x /= y

RECURSIVE Orderings(_)
Orderings(S) ==
    IF S = {} THEN {<< >>}
    ELSE UNION {{<<x>> \o p : p \in Orderings(S \ {x})} : x \in S}

\* ECMAScript's "consistent comparison function", for the n values whose
\* comparator signs are c[a][b]
Consistent(n, c) ==
    /\ \A a \in 1..n : c[a][a] = 0
    /\ \A a, b \in 1..n : c[a][b] = 0 => c[b][a] = 0
    /\ \A a, b, d \in 1..n :
          /\ (c[a][b] = 0 /\ c[b][d] = 0) => c[a][d] = 0
          /\ (c[a][b] < 0 /\ c[b][d] < 0) => c[a][d] < 0
          /\ (c[a][b] > 0 /\ c[b][d] > 0) => c[a][d] > 0

\* What Array.prototype.sort can leave in the array s, c[a][b] being the sign
\* of the comparator on s[a] and s[b]: with a consistent comparator the
\* stable ascending order (ES2019); otherwise the order is
\* implementation-defined and any permutation may result
SortOutcomes(s, c) ==
    LET n == Len(s)
        P == Orderings(1..n)
        stable == { p \in P : \A a, b \in 1..n : a < b =>
                      \/ c[p[a]][p[b]] < 0
                      \/ c[p[a]][p[b]] = 0 /\ p[a] < p[b] }
    IN  IF n < 2 THEN {s}
        ELSE { [k \in 1..n |-> s[p[k]]] :
                 p \in IF Consistent(n, c) THEN stable ELSE P }

(***************************************************************************)
(* parseNessusFile (reportService.ts 27-125).                              *)
(*                                                                         *)
(* A file is [ok, root, hosts]: ok is FALSE when file.text() or the XML    *)
(* parser throws; root tells whether the parsed tree has a                 *)
(* NessusClientData_v2 element with a Report in it; hosts are the          *)
(* ReportHost nodes of the document.                                       *)
(* A ReportHost node is [name, shape, tags, items]: name the '@_name'      *)
(* attribute, shape/tags the value of HostProperties?.tag ("none" absent,  *)
(* "list" an array of tags, "single" one bare tag object, "text" a         *)
(* primitive), items the ReportItem nodes.                                 *)
(***************************************************************************)
Severities == <<"Critical", "High", "Medium", "Low", "Info">>

\* severityOrder of generateReport, the keys of Host.vulnerabilities
severityOrder == <<"critical", "high", "medium", "low", "info">>

ToLowerCase(s) ==
    CASE s = "Critical" -> "critical" [] s = "High" -> "high"
      [] s = "Medium" -> "medium" [] s = "Low" -> "low" [] s = "Info" -> "info"

\* a switch that takes the ordinal as 0-based
SeverityCategoryFromZero(severityValue) ==
    CASE severityValue = 3 -> "Critical"
      [] severityValue = 2 -> "High"
      [] severityValue = 1 -> "Medium"
      [] severityValue = 0 -> "Low"
      [] OTHER -> "Info"

\* the switch on severityValue
SeverityCategory(severityValue) ==
    CASE severityValue = 4 -> "Critical"
      [] severityValue = 3 -> "High"
      [] severityValue = 2 -> "Medium"
      [] severityValue = 1 -> "Low"
      [] OTHER -> "Info"

\* the ip of a ReportHost node
HostIp(reportHost) ==
    LET hostname == OrElse(reportHost.name, EmptyString)
        hits == {k \in 1..Len(reportHost.tags) : reportHost.tags[k].name = "host-ip"}
        first == CHOOSE k \in hits : \A l \in hits : k <= l
    IN  CASE reportHost.shape = "none" -> hostname
          [] reportHost.shape = "list" ->
                IF hits = {} THEN hostname
                ELSE OrElse(reportHost.tags[first].text, hostname)
          [] reportHost.shape = "single" ->
                IF reportHost.tags[1].name = "host-ip"
                THEN reportHost.tags[1].text
                ELSE hostname
          [] OTHER -> EmptyString

\* the Vulnerability built from one ReportItem; rnd is the string that
\* Math.random().toString(36).substring(2, 10) yields in this call
NormalizeItem(item, rnd) ==
    [ id          |-> OrElseStr(item.id, rnd),
      pluginId    |-> OrElseStr(item.pluginID, ""),
      title       |-> OrElseStr(item.pluginName, "Unknown Vulnerability"),
      severity    |-> SeverityCategory(
                          ParseInt(OrElseChars(item.severity, <<"0">>))),
      description |-> OrElseStr(item.description, "No description provided"),
      solution    |-> OrElseStr(item.solution, "No solution provided"),
      cvss        |-> OrElseChars(item.cvss_base_score,
                                  OrElseChars(item.cvss_vector,
                                              <<"0", ".", "0">>)),
      count       |-> 1 ]

\* the items of one bucket, in document order
Bucket(vs, key) == SelectSeq(vs, LAMBDA v : ToLowerCase(v.severity) = key)

\* the Host built from one ReportHost node; rnds[k] is the random string
\* drawn for item k
NormalizeHost(reportHost, rnds) ==
    LET vs == [k \in 1..Len(reportHost.items) |->
                    NormalizeItem(reportHost.items[k], rnds[k])]
    IN  [ ip       |-> HostIp(reportHost),
          hostname |-> OrElse(reportHost.name, EmptyString),
          vulnerabilities |->
              [key \in {severityOrder[k] : k \in 1..Len(severityOrder)} |->
                    Bucket(vs, key)] ]

\* the strings Math.random may yield
RandomStrings == {"k3f9a1zq", "q8z2m4xw"}

\* the Host records one ReportHost node can give
NormalizeHostOutcomes(reportHost) ==
    { NormalizeHost(reportHost, rnds) :
        rnds \in [1..Len(reportHost.items) -> RandomStrings] }

\* reportHosts: the ReportHost nodes under NessusClientData_v2.Report, the
\* empty list when either element is missing
ReportHosts(file) == IF file.root THEN file.hosts ELSE << >>

\* the host lists parseNessusFile can return for a file it does not fail on
parseNessusFile(file) ==
    LET reportHosts == ReportHosts(file)
        n == Len(reportHosts)
        outs == [k \in 1..n |-> NormalizeHostOutcomes(reportHosts[k])]
    IN  { hs \in [1..n -> UNION {outs[k] : k \in 1..n}] :
            \A k \in 1..n : hs[k] \in outs[k] }

(***************************************************************************)
(* mergeAndCountVulnerabilities (reportService.ts 189-212).  A Map is the  *)
(* sequence of its values in insertion order; the key of a value is its    *)
(* pluginId.                                                               *)
(***************************************************************************)
\* count || 1
CountOr1(v) == IF v.count = 0 THEN 1 ELSE v.count

\* vulnMap.set(vuln.pluginId, vuln): a present key keeps its position
VulnMapSet(vulnMap, vuln) ==
    IF \E k \in 1..Len(vulnMap) : vulnMap[k].pluginId = vuln.pluginId
    THEN [k \in 1..Len(vulnMap) |->
            IF vulnMap[k].pluginId = vuln.pluginId THEN vuln ELSE vulnMap[k]]
    ELSE Append(vulnMap, vuln)

\* existingVulns.forEach(vuln => vulnMap.set(vuln.pluginId, {...vuln}))
RECURSIVE SeedVulnMap(_, _)
SeedVulnMap(vulnMap, existingVulns) ==
    IF existingVulns = << >> THEN vulnMap
    ELSE SeedVulnMap(VulnMapSet(vulnMap, Head(existingVulns)),
                     Tail(existingVulns))

\* a merge in which the later file's record replaces the earlier one
CountVulnLastSeen(vulnMap, vuln) ==
    IF \E k \in 1..Len(vulnMap) : vulnMap[k].pluginId = vuln.pluginId
    THEN [k \in 1..Len(vulnMap) |->
            IF vulnMap[k].pluginId = vuln.pluginId
            THEN [vuln EXCEPT !.count = CountOr1(vulnMap[k]) + 1]
            ELSE vulnMap[k]]
    ELSE Append(vulnMap, [vuln EXCEPT !.count = 1])

\* the body of newVulns.forEach for one vuln
CountVuln(vulnMap, vuln) ==
    IF \E k \in 1..Len(vulnMap) : vulnMap[k].pluginId = vuln.pluginId
    THEN [k \in 1..Len(vulnMap) |->
            IF vulnMap[k].pluginId = vuln.pluginId
            THEN [vulnMap[k] EXCEPT !.count = CountOr1(vulnMap[k]) + 1]
            ELSE vulnMap[k]]
    ELSE Append(vulnMap, [vuln EXCEPT !.count = 1])

RECURSIVE CountNewVulns(_, _)
CountNewVulns(vulnMap, newVulns) ==
    IF newVulns = << >> THEN vulnMap
    ELSE CountNewVulns(CountVuln(vulnMap, Head(newVulns)), Tail(newVulns))

\* the comparator of the bucket sort
VulnCompare(a, b) ==
    IF CountOr1(b) /= CountOr1(a) THEN CountOr1(b) - CountOr1(a)
    ELSE Minus(ParseFloat(b.cvss), ParseFloat(a.cvss))

\* the arrays mergeAndCountVulnerabilities can return
mergeAndCountVulnerabilities(existingVulns, newVulns) ==
    LET vs == CountNewVulns(SeedVulnMap(<< >>, existingVulns), newVulns)
    IN  SortOutcomes(vs, [a \in 1..Len(vs) |-> [b \in 1..Len(vs) |->
                                Sign(VulnCompare(vs[a], vs[b]))]])

(***************************************************************************)
(* mergeHosts (reportService.ts 127-187).  hostMap is the sequence of its  *)
(* values in insertion order; the key of a value is its ip.                *)
(***************************************************************************)
BucketKeys == {severityOrder[k] : k \in 1..Len(severityOrder)}

\* a branch that merges the new host's critical bucket into high as well
MergeIntoExistingCrossed(existingHost, host) ==
    LET outs == [key \in BucketKeys |->
                    mergeAndCountVulnerabilities(
                        existingHost.vulnerabilities[key],
                        host.vulnerabilities[IF key = "high" THEN "critical"
                                             ELSE key])]
    IN  { [existingHost EXCEPT !.vulnerabilities = vs] :
            vs \in { f \in [BucketKeys -> UNION {outs[key] : key \in BucketKeys}] :
                        \A key \in BucketKeys : f[key] \in outs[key] } }

\* the hosts that the branch hostMap.has(host.ip) can leave under host.ip
MergeIntoExisting(existingHost, host) ==
    LET outs == [key \in BucketKeys |->
                    mergeAndCountVulnerabilities(
                        existingHost.vulnerabilities[key],
                        host.vulnerabilities[key])]
    IN  { [existingHost EXCEPT !.vulnerabilities = vs] :
            vs \in { f \in [BucketKeys -> UNION {outs[key] : key \in BucketKeys}] :
                        \A key \in BucketKeys : f[key] \in outs[key] } }

\* a merge keyed by the numeric value of the four segments, not by the string
HostMapStepNumeric(hostMap, host) ==
    LET same(a, b) == \A k \in 1..4 :
                        ~StrictNotEqual(IF k <= Len(a) THEN Number(a[k])
                                        ELSE UndefinedNum,
                                        IF k <= Len(b) THEN Number(b[k])
                                        ELSE UndefinedNum)
    IN  IF \E k \in 1..Len(hostMap) : same(hostMap[k].ip, host.ip)
        THEN LET k == CHOOSE k \in 1..Len(hostMap) :
                        same(hostMap[k].ip, host.ip)
             IN  { [hostMap EXCEPT ![k] = h] :
                     h \in MergeIntoExisting(hostMap[k], host) }
        ELSE { Append(hostMap, host) }

\* the body of the inner loop for one host: the maps it can leave
HostMapStep(hostMap, host) ==
    IF \E k \in 1..Len(hostMap) : hostMap[k].ip = host.ip
    THEN LET k == CHOOSE k \in 1..Len(hostMap) : hostMap[k].ip = host.ip
         IN  { [hostMap EXCEPT ![k] = h] :
                 h \in MergeIntoExisting(hostMap[k], host) }
    ELSE { Append(hostMap, host) }

RECURSIVE Flatten(_)
Flatten(hostArrays) ==
    IF hostArrays = << >> THEN << >>
    ELSE Head(hostArrays) \o Flatten(Tail(hostArrays))

RECURSIVE FoldHosts(_, _)
FoldHosts(hostMaps, hosts) ==
    IF hosts = << >> THEN hostMaps
    ELSE FoldHosts(UNION {HostMapStep(m, Head(hosts)) : m \in hostMaps},
                   Tail(hosts))

\* the values of hostMap after the two loops, in insertion order
HostMapValues(hostArrays) == FoldHosts({<< >>}, Flatten(hostArrays))

\* ip.split('.').map(Number)[k - 1]
Segment(ip, k) == IF k <= Len(ip) THEN Number(ip[k]) ELSE UndefinedNum

\* a comparator that stops after the third segment
RECURSIVE CompareThree(_, _, _)
CompareThree(a, b, k) ==
    IF k > 3 THEN 0
    ELSE IF StrictNotEqual(Segment(a.ip, k), Segment(b.ip, k))
         THEN Minus(Segment(a.ip, k), Segment(b.ip, k))
         ELSE CompareThree(a, b, k + 1)

RECURSIVE CompareFrom(_, _, _)
CompareFrom(a, b, k) ==
    IF k > 4 THEN 0
    ELSE IF StrictNotEqual(Segment(a.ip, k), Segment(b.ip, k))
         THEN Minus(Segment(a.ip, k), Segment(b.ip, k))
         ELSE CompareFrom(a, b, k + 1)

\* the comparator of the host sort
HostCompare(a, b) == CompareFrom(a, b, 1)

\* a merge that also fails when there is no host at all
mergeHostsThrowsOnEmpty(hostArrays) ==
    \E m \in HostMapValues(hostArrays) :
        \/ Len(m) = 0
        \/ Len(m) >= 2 /\ \E k \in 1..Len(m) : m[k].ip = Undefined

\* a.ip.split is not a function: the comparator is called (two hosts or
\* more) on a host whose ip is not a string
mergeHostsThrows(hostArrays) ==
    \E m \in HostMapValues(hostArrays) :
        Len(m) >= 2 /\ \E k \in 1..Len(m) : m[k].ip = Undefined

\* the lists mergeHosts can return
mergeHosts(hostArrays) ==
    UNION { SortOutcomes(m, [a \in 1..Len(m) |-> [b \in 1..Len(m) |->
                                Sign(HostCompare(m[a], m[b]))]]) :
            m \in HostMapValues(hostArrays) }

(***************************************************************************)
(* mergeHosts on objects: which objects its assignments write.  The        *)
(* objects of the input are named by their place, a Host by <<f, h>> and a *)
(* Vulnerability by <<f, h, key, k>>; the heap holds their current         *)
(* content.  An element of an array or a value of a Map is either such a  *)
(* name (the input object itself) or, with ref = Fresh, an object created  *)
(* by the merge, which carries its content.                               *)
(***************************************************************************)
Fresh == << >>

VulnRefs(hostArrays) ==
    UNION { UNION { UNION { { <<f, h, key, k>> :
                                k \in 1..Len(hostArrays[f][h].vulnerabilities[key]) } :
                            key \in BucketKeys } :
                    h \in 1..Len(hostArrays[f]) } :
            f \in 1..Len(hostArrays) }

HostRefs(hostArrays) ==
    UNION { { <<f, h>> : h \in 1..Len(hostArrays[f]) } :
            f \in 1..Len(hostArrays) }

\* the objects mergeHosts is called with
InputHeap(hostArrays) ==
    [ vulns |-> [r \in VulnRefs(hostArrays) |->
                    hostArrays[r[1]][r[2]].vulnerabilities[r[3]][r[4]]],
      hosts |-> [r \in HostRefs(hostArrays) |->
                    [key \in BucketKeys |->
                        [k \in 1..Len(hostArrays[r[1]][r[2]].vulnerabilities[key])
                            |-> [ref |-> <<r[1], r[2], key, k>>]]]] ]

\* the content of a Vulnerability object
ValueOf(heap, o) == IF o.ref = Fresh THEN o.val ELSE heap.vulns[o.ref]

\* { ...vuln }
SpreadCopy(heap, o) == [ref |-> Fresh, val |-> ValueOf(heap, o)]

\* vulnMap.set(vuln.pluginId, o)
ObjMapSet(heap, vulnMap, o) ==
    LET hit(k) == ValueOf(heap, vulnMap[k]).pluginId = ValueOf(heap, o).pluginId
    IN  IF \E k \in 1..Len(vulnMap) : hit(k)
        THEN [k \in 1..Len(vulnMap) |-> IF hit(k) THEN o ELSE vulnMap[k]]
        ELSE Append(vulnMap, o)

\* a seeding that puts the existing objects themselves into the map
RECURSIVE SeedOnHeapNoCopy(_, _, _)
SeedOnHeapNoCopy(heap, vulnMap, existingVulns) ==
    IF existingVulns = << >> THEN vulnMap
    ELSE SeedOnHeapNoCopy(heap, ObjMapSet(heap, vulnMap, Head(existingVulns)),
                          Tail(existingVulns))

\* existingVulns.forEach(vuln => vulnMap.set(vuln.pluginId, {...vuln}))
RECURSIVE SeedOnHeap(_, _, _)
SeedOnHeap(heap, vulnMap, existingVulns) ==
    IF existingVulns = << >> THEN vulnMap
    ELSE SeedOnHeap(heap,
                    ObjMapSet(heap, vulnMap,
                              SpreadCopy(heap, Head(existingVulns))),
                    Tail(existingVulns))

\* the body of newVulns.forEach for one vuln: existingVuln.count = ... writes
\* the object the map holds
CountOnHeap(st, vuln) ==
    LET pid == ValueOf(st.heap, vuln).pluginId
        hit(k) == ValueOf(st.heap, st.map[k]).pluginId = pid
    IN  IF \E k \in 1..Len(st.map) : hit(k)
        THEN LET k == CHOOSE k \in 1..Len(st.map) : hit(k)
                 existingVuln == ValueOf(st.heap, st.map[k])
                 written == [existingVuln EXCEPT
                                !.count = CountOr1(existingVuln) + 1]
             IN  IF st.map[k].ref = Fresh
                 THEN [heap |-> st.heap,
                       map  |-> [st.map EXCEPT
                                    ![k] = [ref |-> Fresh, val |-> written]]]
                 ELSE [heap |-> [st.heap EXCEPT
                                    !.vulns[st.map[k].ref] = written],
                       map  |-> st.map]
        ELSE [heap |-> st.heap,
              map  |-> Append(st.map,
                              [ref |-> Fresh,
                               val |-> [ValueOf(st.heap, vuln) EXCEPT
                                            !.count = 1]])]

RECURSIVE CountAllOnHeap(_, _)
CountAllOnHeap(st, newVulns) ==
    IF newVulns = << >> THEN st
    ELSE CountAllOnHeap(CountOnHeap(st, Head(newVulns)), Tail(newVulns))

\* mergeAndCountVulnerabilities on objects: the heaps and arrays it can leave
mergeAndCountOnHeap(heap, existingVulns, newVulns) ==
    LET st == CountAllOnHeap([heap |-> heap,
                              map  |-> SeedOnHeap(heap, << >>, existingVulns)],
                             newVulns)
        vs == st.map
    IN  { [heap |-> st.heap, objs |-> sorted] :
            sorted \in SortOutcomes(vs,
                [a \in 1..Len(vs) |-> [b \in 1..Len(vs) |->
                    Sign(VulnCompare(ValueOf(st.heap, vs[a]),
                                     ValueOf(st.heap, vs[b])))]]) }

\* the bucket arrays of a host of hostMap
BucketsOf(heap, entry) ==
    IF entry.ref = Fresh THEN entry.vulnerabilities ELSE heap.hosts[entry.ref]

\* existingHost.vulnerabilities[key] = objs
WriteBucket(heap, entry, key, objs) ==
    IF entry.ref = Fresh
    THEN [heap |-> heap, entry |-> [entry EXCEPT !.vulnerabilities[key] = objs]]
    ELSE [heap |-> [heap EXCEPT !.hosts[entry.ref][key] = objs], entry |-> entry]

\* the five assignments of the branch hostMap.has(host.ip), from the k-th on
RECURSIVE MergeBucketsOnHeap(_, _, _)
MergeBucketsOnHeap(sts, hostRef, k) ==
    IF k > Len(severityOrder) THEN sts
    ELSE MergeBucketsOnHeap(
            UNION { { WriteBucket(out.heap, st.entry, severityOrder[k], out.objs) :
                        out \in mergeAndCountOnHeap(
                                    st.heap,
                                    BucketsOf(st.heap, st.entry)[severityOrder[k]],
                                    st.heap.hosts[hostRef][severityOrder[k]]) } :
                    st \in sts },
            hostRef, k + 1)

\* the body of the inner loop for the host object hostRef
HostStepOnHeap(st, hostRef, hostArrays) ==
    LET host == hostArrays[hostRef[1]][hostRef[2]]
    IN  IF \E k \in 1..Len(st.map) : st.map[k].ip = host.ip
        THEN LET k == CHOOSE k \in 1..Len(st.map) : st.map[k].ip = host.ip
             IN  { [heap |-> o.heap, map |-> [st.map EXCEPT ![k] = o.entry]] :
                     o \in MergeBucketsOnHeap(
                              {[heap |-> st.heap, entry |-> st.map[k]]},
                              hostRef, 1) }
        ELSE { [heap |-> st.heap,
                map  |-> Append(st.map,
                                [ref |-> Fresh, ip |-> host.ip,
                                 hostname |-> host.hostname,
                                 vulnerabilities |-> st.heap.hosts[hostRef]])] }

RECURSIVE FoldOnHeap(_, _, _)
FoldOnHeap(sts, hostRefs, hostArrays) ==
    IF hostRefs = << >> THEN sts
    ELSE FoldOnHeap(UNION { HostStepOnHeap(st, Head(hostRefs), hostArrays) :
                            st \in sts },
                    Tail(hostRefs), hostArrays)

\* the heaps and maps the two loops of mergeHosts can leave
MergeOnHeap(hostArrays) ==
    FoldOnHeap({[heap |-> InputHeap(hostArrays), map |-> << >>]},
               Flatten([f \in 1..Len(hostArrays) |->
                           [h \in 1..Len(hostArrays[f]) |-> <<f, h>>]]),
               hostArrays)

\* what the caller's host lists hold once mergeHosts has run
InputsAfterMerge(hostArrays) ==
    { [f \in 1..Len(hostArrays) |->
         [h \in 1..Len(hostArrays[f]) |->
            [hostArrays[f][h] EXCEPT
               !.vulnerabilities =
                  [key \in BucketKeys |->
                     [k \in 1..Len(st.heap.hosts[<<f, h>>][key]) |->
                        ValueOf(st.heap, st.heap.hosts[<<f, h>>][key][k])]]]]] :
        st \in MergeOnHeap(hostArrays) }

\* totals that add up the occurrence counts instead of the bucket lengths
RECURSIVE TotalsOfCounts(_)
TotalsOfCounts(hosts) ==
    IF hosts = << >> THEN [key \in BucketKeys |-> 0]
    ELSE LET t == TotalsOfCounts(SubSeq(hosts, 1, Len(hosts) - 1))
             host == hosts[Len(hosts)]
             RECURSIVE sum(_)
             sum(vs) == IF vs = << >> THEN 0
                        ELSE CountOr1(Head(vs)) + sum(Tail(vs))
         IN  [key \in BucketKeys |-> t[key] + sum(host.vulnerabilities[key])]

\* calculateVulnerabilityTotals (reportService.ts 214-232)
RECURSIVE calculateVulnerabilityTotals(_)
calculateVulnerabilityTotals(hosts) ==
    IF hosts = << >> THEN [key \in BucketKeys |-> 0]
    ELSE LET t == calculateVulnerabilityTotals(
                      SubSeq(hosts, 1, Len(hosts) - 1))
             host == hosts[Len(hosts)]
         IN  [key \in BucketKeys |-> t[key] + Len(host.vulnerabilities[key])]

(***************************************************************************)
(* generateReport (reportService.ts 413-518).  The progress callback is   *)
(* the one Index.tsx always supplies.  completedSteps / totalSteps and the  *)
(* product with 100 are IEEE 754 double operations, each rounded to 53     *)
(* significant bits; MathFloorPercent follows the two roundings exactly,   *)
(* with integers no larger than a few thousand.                            *)
(***************************************************************************)
totalSteps == Len(files) + 3

RECURSIVE Pow2(_)
Pow2(n) == IF n = 0 THEN 1 ELSE 2 * Pow2(n - 1)

\* r * 2^n modulo t
RECURSIVE DoubleMod(_, _, _)
DoubleMod(r, n, t) == IF n = 0 THEN r ELSE DoubleMod((2 * r) % t, n - 1, t)

\* the least e >= from with c * 2^e >= t
RECURSIVE ScaleExp(_, _, _)
ScaleExp(c, t, from) ==
    IF c * Pow2(from) >= t THEN from ELSE ScaleExp(c, t, from + 1)

\* the exponent of the binade of m: 2^j <= m < 2^(j+1)
RECURSIVE Log2(_)
Log2(m) == IF m < 2 THEN 0 ELSE 1 + Log2(m \div 2)

\* Math.floor((c / t) * 100) for 0 <= c <= t.  The quotient c / t is the
\* nearest double q = (c * 2^k / t + d / t) / 2^k, k = 52 + e, where
\* r = c * 2^k mod t and d is -r (rounded down) or t - r (rounded up).  The
\* product 100 * q is 100c/t + 100d / (t * 2^k), rounded again: when 100c/t
\* is not an integer the floor is that of 100c/t; when it is an integer m and
\* q was rounded down, the product falls to the double below m as soon as
\* it is more than half a spacing under m, and the floor is m - 1.
MathFloorPercent(c, t) ==
    LET m == (100 * c) \div t
        e == ScaleExp(c, t, 0)
        r == DoubleMod(c % t, 52 + e, t)
        j == Log2(m)
        x == j + e - 1 - (IF m = Pow2(j) THEN 1 ELSE 0)
        a == IF x < 0 THEN 0 - x ELSE 0
        b == IF x > 0 THEN x ELSE 0
    IN  IF c = 0 THEN 0
        ELSE IF (100 * c) % t /= 0 \/ c >= t THEN m
        ELSE IF r = 0 \/ 2 * r >= t THEN m
        ELSE IF 100 * r * Pow2(a) > t * Pow2(b) THEN m - 1 ELSE m

Percent(steps) == MathFloorPercent(steps, totalSteps)

\* mergedHosts.flatMap(host => host.vulnerabilities[severity])
RECURSIVE FlatMapBucket(_, _)
FlatMapBucket(hosts, severity) ==
    IF hosts = << >> THEN << >>
    ELSE Head(hosts).vulnerabilities[severity]
         \o FlatMapBucket(Tail(hosts), severity)

\* the number generateVulnerabilitySection prints in the heading
HeadingNumber(index) == index + 1

\* a loop that writes a group for a severity without findings too
RECURSIVE SeverityGroupsWithEmpty(_, _, _)
SeverityGroupsWithEmpty(hosts, k, index) ==
    IF k > Len(severityOrder) THEN << >>
    ELSE LET severityVulns == FlatMapBucket(hosts, severityOrder[k])
             n == Len(severityVulns)
         IN  << [ severity |-> severityOrder[k],
                  entries  |-> [j \in 1..n |->
                       [ number |-> HeadingNumber(index + j - 1),
                         vuln   |-> severityVulns[j] ]] ] >>
             \o SeverityGroupsWithEmpty(hosts, k + 1, index + n)

\* the severity groups appended for severityOrder[k..], starting at index
RECURSIVE SeverityGroups(_, _, _)
SeverityGroups(hosts, k, index) ==
    IF k > Len(severityOrder) THEN << >>
    ELSE LET severityVulns == FlatMapBucket(hosts, severityOrder[k])
             n == Len(severityVulns)
         IN  IF n > 0
             THEN << [ severity |-> severityOrder[k],
                       entries  |-> [j \in 1..n |->
                            [ number |-> HeadingNumber(index + j - 1),
                              vuln   |-> severityVulns[j] ]] ] >>
                  \o SeverityGroups(hosts, k + 1, index + n)
             ELSE SeverityGroups(hosts, k + 1, index)

\* how often the loops ran globalIndex++
RECURSIVE EntryCount(_)
EntryCount(groups) ==
    IF groups = << >> THEN 0
    ELSE Len(Head(groups).entries) + EntryCount(Tail(groups))

\* a file loop whose catch branch rethrows
ParseFileRethrow ==
    /\ UNCHANGED page
    /\ pc = "parse"
    /\ i <= Len(files)
    /\ i \in reading
    /\ reading' = reading \ {i}
    /\ IF files[i].ok
       THEN /\ \E parsedHosts \in parseNessusFile(files[i]) :
                  parsedHostArrays' = Append(parsedHostArrays, parsedHosts)
            /\ completedSteps' = completedSteps + 1
            /\ progress' = Append(progress, Percent(completedSteps + 1))
            /\ i' = i + 1
            /\ pc' = pc
       ELSE /\ pc' = "rejected"
            /\ UNCHANGED <<parsedHostArrays, completedSteps, progress, i>>
    /\ UNCHANGED <<files, mergedHosts, vulnerabilityTotals, sections,
                   globalIndex>>

\* a file loop whose catch branch reports 0
ParseFileZeroOnError ==
    /\ UNCHANGED page
    /\ pc = "parse"
    /\ i <= Len(files)
    /\ i \in reading
    /\ reading' = reading \ {i}
    /\ IF files[i].ok
       THEN /\ \E parsedHosts \in parseNessusFile(files[i]) :
                  parsedHostArrays' = Append(parsedHostArrays, parsedHosts)
            /\ completedSteps' = completedSteps + 1
            /\ progress' = Append(progress, Percent(completedSteps + 1))
       ELSE /\ progress' = Append(progress, 0)
            /\ UNCHANGED <<parsedHostArrays, completedSteps>>
    /\ i' = i + 1
    /\ UNCHANGED <<files, pc, mergedHosts, vulnerabilityTotals, sections,
                   globalIndex>>

\* a loop that calls parseNessusFile for a file before the calls for the
\* files ahead of it have settled
ReadFileAhead ==
    /\ UNCHANGED page
    /\ pc = "parse"
    /\ \E k \in i..Len(files) :
          /\ k \notin reading
          /\ reading' = reading \cup {k}
    /\ UNCHANGED <<files, pc, i, parsedHostArrays, completedSteps, progress,
                   mergedHosts, vulnerabilityTotals, sections, globalIndex>>

\* the call parseNessusFile(files[i]), which runs up to its
\* await file.text() and leaves generateReport suspended at its own await
ReadFile ==
    /\ UNCHANGED page
    /\ pc = "parse"
    /\ i <= Len(files)
    /\ i \notin reading
    /\ reading' = reading \cup {i}
    /\ UNCHANGED <<files, pc, i, parsedHostArrays, completedSteps, progress,
                   mergedHosts, vulnerabilityTotals, sections, globalIndex>>

\* the rest of one iteration of the file loop: parseNessusFile(files[i])
\* settles and the try or the catch branch runs
ParseFile ==
    /\ UNCHANGED page
    /\ pc = "parse"
    /\ i <= Len(files)
    /\ i \in reading
    /\ reading' = reading \ {i}
    /\ IF files[i].ok
       THEN /\ \E parsedHosts \in parseNessusFile(files[i]) :
                  parsedHostArrays' = Append(parsedHostArrays, parsedHosts)
            /\ completedSteps' = completedSteps + 1
            /\ progress' = Append(progress, Percent(completedSteps + 1))
       ELSE /\ progress' = Append(progress, Percent(completedSteps))
            /\ UNCHANGED <<parsedHostArrays, completedSteps>>
    /\ i' = i + 1
    /\ UNCHANGED <<files, pc, mergedHosts, vulnerabilityTotals, sections,
                   globalIndex>>

\* an aggregation step that catches the exception of mergeHosts and goes on
\* without hosts
AggregateSwallow ==
    /\ UNCHANGED page
    /\ pc = "parse"
    /\ i > Len(files)
    /\ parsedHostArrays' \in InputsAfterMerge(parsedHostArrays)
    /\ IF mergeHostsThrows(parsedHostArrays)
       THEN mergedHosts' = << >>
       ELSE \E merged \in mergeHosts(parsedHostArrays) : mergedHosts' = merged
    /\ completedSteps' = completedSteps + 1
    /\ progress' = Append(progress, Percent(completedSteps + 1))
    /\ pc' = "totals"
    /\ UNCHANGED <<files, i, reading, vulnerabilityTotals, sections,
                   globalIndex>>

\* const mergedHosts = mergeHosts(parsedHostArrays), or its exception
\* leaving generateReport; the loops of mergeHosts have run on the caller's
\* objects in either case
Aggregate ==
    /\ UNCHANGED page
    /\ pc = "parse"
    /\ i > Len(files)
    /\ parsedHostArrays' \in InputsAfterMerge(parsedHostArrays)
    /\ IF mergeHostsThrows(parsedHostArrays)
       THEN /\ pc' = "rejected"
            /\ UNCHANGED <<mergedHosts, completedSteps, progress>>
       ELSE /\ \E merged \in mergeHosts(parsedHostArrays) :
                  mergedHosts' = merged
            /\ completedSteps' = completedSteps + 1
            /\ progress' = Append(progress, Percent(completedSteps + 1))
            /\ pc' = "totals"
    /\ UNCHANGED <<files, i, reading, vulnerabilityTotals, sections,
                   globalIndex>>

\* const vulnerabilityTotals = calculateVulnerabilityTotals(mergedHosts)
Totals ==
    /\ UNCHANGED page
    /\ pc = "totals"
    /\ vulnerabilityTotals' = calculateVulnerabilityTotals(mergedHosts)
    /\ completedSteps' = completedSteps + 1
    /\ progress' = Append(progress, Percent(completedSteps + 1))
    /\ pc' = "synth"
    /\ UNCHANGED <<files, i, reading, parsedHostArrays, mergedHosts, sections,
                   globalIndex>>

\* the header, the summary table, the severity groups, onProgress(100) and
\* the returned Blob
Synthesize ==
    /\ UNCHANGED page
    /\ pc = "synth"
    /\ sections' = SeverityGroups(mergedHosts, 1, globalIndex)
    /\ globalIndex' = globalIndex + EntryCount(sections')
    /\ progress' = Append(progress, 100)
    /\ pc' = "done"
    /\ UNCHANGED <<files, i, reading, parsedHostArrays, completedSteps,
                   mergedHosts, vulnerabilityTotals>>

Next == ReadFile \/ ParseFile \/ Aggregate \/ Totals \/ Synthesize

\* the state generateReport starts in, for the argument fs
Start(fs) ==
    /\ files = fs
    /\ pc = "parse"
    /\ i = 1
    /\ reading = {}
    /\ parsedHostArrays = << >>
    /\ completedSteps = 0
    /\ progress = << >>
    /\ mergedHosts = << >>
    /\ vulnerabilityTotals = [key \in BucketKeys |-> 0]
    /\ sections = << >>
    /\ globalIndex = 1
    /\ indexFiles = << >>
    /\ appState = "idle"
    /\ reportBlob = Null
    /\ indexProgress = 0
    /\ uploadFiles = << >>
    /\ inFlight = {}
    /\ runs = 0
    /\ lastResolved = 0
    /\ downloaded = Null
    /\ events = 0

(***************************************************************************)
(* The inputs: the files an invocation is called with.                     *)
(***************************************************************************)
Ip_10_0_0_1  == << <<"1", "0">>, <<"0">>, <<"0">>, <<"1">> >>
Ip_10_0_0_2  == << <<"1", "0">>, <<"0">>, <<"0">>, <<"2">> >>
Ip_10_0_0_02 == << <<"1", "0">>, <<"0">>, <<"0">>, <<"0", "2">> >>
Ip_10_0_0_5  == << <<"1", "0">>, <<"0">>, <<"0">>, <<"5">> >>
Ip_10_0_0_10 == << <<"1", "0">>, <<"0">>, <<"0">>, <<"1", "0">> >>
Ip_9_1_0_3   == << <<"9">>, <<"1">>, <<"0">>, <<"3">> >>
NameWeb      == << <<"w", "e", "b">> >>

HostIpTag(text) == [name |-> "host-ip", text |-> text]
OtherTag == [name |-> "operating-system", text |-> NameWeb]

\* a ReportHost node without its items
Head_5    == [name |-> NameWeb, shape |-> "list",
              tags |-> <<OtherTag, HostIpTag(Ip_10_0_0_5)>>]
Head_2    == [name |-> Ip_10_0_0_2, shape |-> "none", tags |-> << >>]
Head_02   == [name |-> NameWeb, shape |-> "list",
              tags |-> <<HostIpTag(Ip_10_0_0_02)>>]
Head_1    == [name |-> Ip_10_0_0_1, shape |-> "list", tags |-> <<OtherTag>>]
Head_10   == [name |-> Undefined, shape |-> "list",
              tags |-> <<HostIpTag(Ip_10_0_0_10)>>]
Head_9    == [name |-> NameWeb, shape |-> "single",
              tags |-> <<HostIpTag(Ip_9_1_0_3)>>]
Head_Web  == [name |-> NameWeb, shape |-> "single", tags |-> <<OtherTag>>]
Head_None == [name |-> NameWeb, shape |-> "single",
              tags |-> <<HostIpTag(Undefined)>>]

Score_7_5 == <<"7", ".", "5">>
Score_9_0 == <<"9", ".", "0">>
Vector    == <<"A", "V", ":", "N">>

\* ReportItem nodes
Item_A == [id |-> "a1", pluginID |-> "19506", severity |-> <<"4">>,
           pluginName |-> "Nessus Scan Information",
           description |-> "scan summary", solution |-> "n/a",
           cvss_base_score |-> Score_7_5, cvss_vector |-> Vector]
Item_B == [id |-> "b2", pluginID |-> "19506", severity |-> <<"4">>,
           pluginName |-> "Scan Information",
           description |-> "summary of the scan", solution |-> "none",
           cvss_base_score |-> Score_9_0, cvss_vector |-> << >>]
Item_C == [id |-> "c3", pluginID |-> "10335", severity |-> <<"4">>,
           pluginName |-> "TCP Scanner",
           description |-> "", solution |-> "",
           cvss_base_score |-> << >>, cvss_vector |-> Vector]
Item_D == [id |-> "d4", pluginID |-> "19506", severity |-> <<"3">>,
           pluginName |-> "Nessus Scan Information",
           description |-> "scan summary", solution |-> "n/a",
           cvss_base_score |-> Score_7_5, cvss_vector |-> << >>]
Item_E == [id |-> "", pluginID |-> "", severity |-> <<"x">>,
           pluginName |-> "", description |-> "", solution |-> "",
           cvss_base_score |-> << >>, cvss_vector |-> << >>]
Item_F == [id |-> "f6", pluginID |-> "10335", severity |-> <<"2">>,
           pluginName |-> "TCP Scanner",
           description |-> "", solution |-> "",
           cvss_base_score |-> Score_9_0, cvss_vector |-> << >>]
Item_G == [id |-> "g7", pluginID |-> "11219", severity |-> <<"1">>,
           pluginName |-> "SYN Scanner",
           description |-> "", solution |-> "",
           cvss_base_score |-> << >>, cvss_vector |-> << >>]

\* the sequences over U of length at most n
SeqsUpTo(U, n) == UNION {[1..m -> U] : m \in 0..n}

RECURSIVE ItemTotal(_)
ItemTotal(hosts) ==
    IF hosts = << >> THEN 0
    ELSE Len(Head(hosts).items) + ItemTotal(Tail(hosts))

\* the lists of at most h ReportHost nodes with at most n items in all
RECURSIVE HostLists(_, _, _, _)
HostLists(Heads, Items, h, n) ==
    {<< >>} \cup
    IF h = 0 THEN {}
    ELSE UNION { UNION { { <<[name |-> hd.name, shape |-> hd.shape,
                              tags |-> hd.tags, items |-> its]>> \o tl :
                              tl \in HostLists(Heads, Items, h - 1,
                                               n - Len(its)) } :
                          its \in SeqsUpTo(Items, n) } :
                 hd \in Heads }

\* the lists of at most f files with at most h hosts and n items in all
RECURSIVE FileLists(_, _, _, _, _)
FileLists(Heads, Items, f, h, n) ==
    {<< >>} \cup
    IF f = 0 THEN {}
    ELSE { <<[ok |-> FALSE, root |-> FALSE, hosts |-> << >>]>> \o tl :
                tl \in FileLists(Heads, Items, f - 1, h, n) }
         \cup
         UNION { { <<[ok |-> TRUE, root |-> TRUE, hosts |-> hs]>> \o tl :
                     tl \in FileLists(Heads, Items, f - 1, h - Len(hs),
                                      n - ItemTotal(hs)) } :
                 hs \in HostLists(Heads, Items, h, n) }

\* an invocation on files whose hosts carry findings
Init ==
    \E fs \in FileLists({Head_5, Head_2, Head_02, Head_None},
                        {Item_A, Item_B, Item_C, Item_D, Item_E, Item_F,
                         Item_G},
                        MaxFiles, MaxHosts, MaxItems) : Start(fs)

Spec == Init /\ [][Next]_vars

\* an invocation on files that list hosts only
InitSort ==
    \E fs \in FileLists({Head_1, Head_2, Head_10, Head_9, Head_Web},
                        {Item_A}, MaxFiles, MaxSortHosts, 0) : Start(fs)

SpecSort == InitSort /\ [][Next]_vars

\* a file that parses and lists no host, and one that fails to parse
EmptyFile   == [ok |-> TRUE, root |-> TRUE, hosts |-> << >>]
FailingFile == [ok |-> FALSE, root |-> FALSE, hosts |-> << >>]

\* an invocation on up to MaxManyFiles files without hosts, of which the
\* first or the last f fail to parse
InitMany ==
    \E n \in 0..MaxManyFiles : \E f \in 0..n : \E atEnd \in BOOLEAN :
        Start([k \in 1..n |->
                 IF (IF atEnd THEN k > n - f ELSE k <= f)
                 THEN FailingFile ELSE EmptyFile])

SpecMany == InitMany /\ [][Next]_vars

\* the characters a severity attribute is made of here
SeverityChars == {"0", "1", "2", "3", "4", "5", "-", "a"}

\* an invocation on one file with one host and one ReportItem whose
\* severity attribute is any string of at most MaxSeverityLen characters
InitSeverity ==
    \E sev \in SeqsUpTo(SeverityChars, MaxSeverityLen) :
        Start(<< [ok |-> TRUE, root |-> TRUE,
                  hosts |-> << [name |-> Head_5.name, shape |-> Head_5.shape,
                                tags |-> Head_5.tags,
                                items |-> <<[Item_A EXCEPT !.severity = sev]>>]
                            >>] >>)

SpecSeverity == InitSeverity /\ [][Next]_vars

\* a document of another dialect: well-formed, without NessusClientData_v2,
\* with or without ReportHost elements of its own
OtherDialect(hosts) == [ok |-> TRUE, root |-> FALSE, hosts |-> hosts]

\* a Nessus document with the given ReportHost nodes
NessusFile(hosts) == [ok |-> TRUE, root |-> TRUE, hosts |-> hosts]

\* a ReportHost node with one finding
Host_5A == [name |-> Head_5.name, shape |-> Head_5.shape,
            tags |-> Head_5.tags, items |-> <<Item_A>>]
Host_2C == [name |-> Head_2.name, shape |-> Head_2.shape,
            tags |-> Head_2.tags, items |-> <<Item_C>>]

\* an invocation on files of which some are of another dialect
InitDialect ==
    \E fs \in SeqsUpTo({FailingFile, EmptyFile, OtherDialect(<< >>),
                        OtherDialect(<<Host_5A>>), NessusFile(<<Host_5A>>),
                        NessusFile(<<Host_2C>>)}, MaxFiles) : Start(fs)

SpecDialect == InitDialect /\ [][Next]_vars

(***************************************************************************)
(* The Index page (src/src/pages/Index.tsx) with its FileUpload            *)
(* (src/unnamed/part_004) and its CompanyDetailsForm                       *)
(* (src/unnamed/part_001).  A handler runs from its call to its return or  *)
(* to its await, and the page is rendered again before the next event.    *)
(* A File is its name, a dotted string; generateReport is the pending call *)
(* and its outcome: it resolves with the Blob of this run or rejects.      *)
(***************************************************************************)
\* the defaults of the FileUpload props
maxFiles == 50
acceptedFileTypes == { <<".", "n", "e", "s", "s", "u", "s">>,
                       <<".", "x", "m", "l">> }

\* String.prototype.toLowerCase on the letters used in the file names
LowerChar(c) ==
    CASE c = "X" -> "x" [] c = "M" -> "m" [] c = "L" -> "l" [] OTHER -> c

LowerCaseChars(s) == [k \in 1..Len(s) |-> LowerChar(s[k])]

\* '.' + file.name.split('.').pop()?.toLowerCase()
FileExtension(name) == <<".">> \o LowerCaseChars(name[Len(name)])

\* validateFiles: the files of the list whose fileExtension is accepted
validateFiles(fileList) ==
    SelectSeq(fileList, LAMBDA name : FileExtension(name) \in acceptedFileTypes)

\* file names: a.nessus, b.XML, c.txt, xml, a.xml.bak
Name_a_nessus  == << <<"a">>, <<"n", "e", "s", "s", "u", "s">> >>
Name_b_XML     == << <<"b">>, <<"X", "M", "L">> >>
Name_c_txt     == << <<"c">>, <<"t", "x", "t">> >>
Name_xml       == << <<"x", "m", "l">> >>
Name_a_xml_bak == << <<"a">>, <<"x", "m", "l">>, <<"b", "a", "k">> >>

\* the lists of files a drop or the file dialog can hand over: one file, a
\* scan with a text file, and MaxBatch scans at once
Selections ==
    { <<name>> : name \in {Name_a_nessus, Name_b_XML, Name_c_txt, Name_xml,
                           Name_a_xml_bak} }
    \cup { <<Name_a_nessus, Name_c_txt>>,
           [k \in 1..MaxBatch |-> Name_a_nessus] }

\* the values generateReport passes to its onProgress callback here
ProgressValues == {0, 50, 100}

\* handleDrop and handleFileInputChange with a list that is not empty:
\* handleFileSelection, and handleFilesUploaded of Index when it is called
SelectFiles ==
    /\ events < MaxEvents
    /\ events' = events + 1
    /\ \E selectedFiles \in Selections :
          LET validFiles == validateFiles(selectedFiles)
              newFiles == uploadFiles \o validFiles
          IN  IF Len(uploadFiles) + Len(validFiles) > maxFiles
                 \/ Len(validFiles) = 0
              THEN UNCHANGED <<uploadFiles, indexFiles, appState>>
              ELSE /\ uploadFiles' = newFiles
                   /\ indexFiles' = newFiles
                   /\ appState' = IF appState = "success" THEN "idle"
                                  ELSE appState
    /\ UNCHANGED <<reportBlob, indexProgress, inFlight, runs, lastResolved,
                   downloaded>>
    /\ UNCHANGED <<files, pc, i, reading, parsedHostArrays, completedSteps,
                   progress, mergedHosts, vulnerabilityTotals, sections,
                   globalIndex>>

\* removeFile(index) from the X button of a listed file
RemoveFile ==
    /\ events < MaxEvents
    /\ events' = events + 1
    /\ \E indexToRemove \in 1..Len(uploadFiles) :
          LET newFiles == SubSeq(uploadFiles, 1, indexToRemove - 1)
                          \o SubSeq(uploadFiles, indexToRemove + 1,
                                    Len(uploadFiles))
          IN  /\ uploadFiles' = newFiles
              /\ indexFiles' = newFiles
    /\ appState' = IF appState = "success" THEN "idle" ELSE appState
    /\ UNCHANGED <<reportBlob, indexProgress, inFlight, runs, lastResolved,
                   downloaded>>
    /\ UNCHANGED <<files, pc, i, reading, parsedHostArrays, completedSteps,
                   progress, mergedHosts, vulnerabilityTotals, sections,
                   globalIndex>>

\* the Remove all button, shown while the FileUpload lists a file
RemoveAll ==
    /\ events < MaxEvents
    /\ events' = events + 1
    /\ Len(uploadFiles) > 0
    /\ uploadFiles' = << >>
    /\ indexFiles' = << >>
    /\ appState' = IF appState = "success" THEN "idle" ELSE appState
    /\ UNCHANGED <<reportBlob, indexProgress, inFlight, runs, lastResolved,
                   downloaded>>
    /\ UNCHANGED <<files, pc, i, reading, parsedHostArrays, completedSteps,
                   progress, mergedHosts, vulnerabilityTotals, sections,
                   globalIndex>>

\* a submit handler that does not look at the state of the page
SubmitAnyTime ==
    /\ events < MaxEvents
    /\ events' = events + 1
    /\ IF indexFiles = << >>
       THEN UNCHANGED <<appState, indexProgress, inFlight, runs>>
       ELSE /\ appState' = "generating"
            /\ indexProgress' = 0
            /\ runs' = runs + 1
            /\ inFlight' = inFlight \cup {[run |-> runs + 1,
                                           files |-> indexFiles]}
    /\ UNCHANGED <<indexFiles, reportBlob, uploadFiles, lastResolved,
                   downloaded>>
    /\ UNCHANGED <<files, pc, i, reading, parsedHostArrays, completedSteps,
                   progress, mergedHosts, vulnerabilityTotals, sections,
                   globalIndex>>

\* the Generate Report button, disabled while appState is 'generating', with
\* valid company details: handleFormSubmit up to its await
Submit ==
    /\ events < MaxEvents
    /\ events' = events + 1
    /\ appState /= "generating"
    /\ IF indexFiles = << >>
       THEN UNCHANGED <<appState, indexProgress, inFlight, runs>>
       ELSE /\ appState' = "generating"
            /\ indexProgress' = 0
            /\ runs' = runs + 1
            /\ inFlight' = inFlight \cup {[run |-> runs + 1,
                                           files |-> indexFiles]}
    /\ UNCHANGED <<indexFiles, reportBlob, uploadFiles, lastResolved,
                   downloaded>>
    /\ UNCHANGED <<files, pc, i, reading, parsedHostArrays, completedSteps,
                   progress, mergedHosts, vulnerabilityTotals, sections,
                   globalIndex>>

\* the onProgress callback of a pending call
Notify ==
    /\ inFlight /= {}
    /\ \E progressValue \in ProgressValues : indexProgress' = progressValue
    /\ UNCHANGED <<indexFiles, appState, reportBlob, uploadFiles, inFlight,
                   runs, lastResolved, downloaded, events>>
    /\ UNCHANGED <<files, pc, i, reading, parsedHostArrays, completedSteps,
                   progress, mergedHosts, vulnerabilityTotals, sections,
                   globalIndex>>

\* a catch branch that shows the success view
RejectedAsSuccess ==
    /\ \E call \in inFlight :
          /\ inFlight' = inFlight \ {call}
          /\ appState' = "success"
    /\ UNCHANGED <<indexFiles, reportBlob, indexProgress, uploadFiles, runs,
                   lastResolved, downloaded, events>>
    /\ UNCHANGED <<files, pc, i, reading, parsedHostArrays, completedSteps,
                   progress, mergedHosts, vulnerabilityTotals, sections,
                   globalIndex>>

\* a pending call resolves: handleFormSubmit after its await
Resolved ==
    /\ \E call \in inFlight :
          /\ inFlight' = inFlight \ {call}
          /\ reportBlob' = call.run
          /\ lastResolved' = call.run
          /\ appState' = "success"
    /\ UNCHANGED <<indexFiles, indexProgress, uploadFiles, runs, downloaded,
                   events>>
    /\ UNCHANGED <<files, pc, i, reading, parsedHostArrays, completedSteps,
                   progress, mergedHosts, vulnerabilityTotals, sections,
                   globalIndex>>

\* a pending call rejects: the catch branch of handleFormSubmit
Rejected ==
    /\ \E call \in inFlight :
          /\ inFlight' = inFlight \ {call}
          /\ appState' = "error"
    /\ UNCHANGED <<indexFiles, reportBlob, indexProgress, uploadFiles, runs,
                   lastResolved, downloaded, events>>
    /\ UNCHANGED <<files, pc, i, reading, parsedHostArrays, completedSteps,
                   progress, mergedHosts, vulnerabilityTotals, sections,
                   globalIndex>>

\* handleDownloadReport, from the button of the success view
Download ==
    /\ events < MaxEvents
    /\ events' = events + 1
    /\ appState = "success"
    /\ downloaded' = IF reportBlob = Null THEN downloaded ELSE reportBlob
    /\ UNCHANGED <<indexFiles, appState, reportBlob, indexProgress,
                   uploadFiles, inFlight, runs, lastResolved>>
    /\ UNCHANGED <<files, pc, i, reading, parsedHostArrays, completedSteps,
                   progress, mergedHosts, vulnerabilityTotals, sections,
                   globalIndex>>

\* handleReset, from the button of the success view
Reset ==
    /\ events < MaxEvents
    /\ events' = events + 1
    /\ appState = "success"
    /\ appState' = "idle"
    /\ reportBlob' = Null
    /\ indexFiles' = << >>
    /\ UNCHANGED <<indexProgress, uploadFiles, inFlight, runs, lastResolved,
                   downloaded>>
    /\ UNCHANGED <<files, pc, i, reading, parsedHostArrays, completedSteps,
                   progress, mergedHosts, vulnerabilityTotals, sections,
                   globalIndex>>

NextIndex ==
    \/ SelectFiles \/ RemoveFile \/ RemoveAll \/ Submit \/ Notify
    \/ Resolved \/ Rejected \/ Download \/ Reset

\* the page as mounted, no generateReport call made
InitIndex == Start(<< >>)

SpecIndex == InitIndex /\ [][NextIndex]_vars

(***************************************************************************)
(* Properties.  The inputs of mergeHosts are read from parsedHostArrays,   *)
(* its result from mergedHosts once it has returned.                      *)
(***************************************************************************)
Merged == pc \in {"totals", "synth", "done"}

Totalled == pc \in {"synth", "done"}

\* the addresses of the input host records
InputIps ==
    UNION { {parsedHostArrays[f][h].ip : h \in 1..Len(parsedHostArrays[f])} :
              f \in 1..Len(parsedHostArrays) }

\* the places <<file, host, position>> where identity pid is listed for
\* address ip in bucket key
Observed(ip, key, pid) ==
    UNION { UNION { { <<f, h, k>> :
                        k \in { k \in 1..Len(parsedHostArrays[f][h]
                                               .vulnerabilities[key]) :
                                  parsedHostArrays[f][h].vulnerabilities[key][k]
                                      .pluginId = pid } } :
                    h \in { h \in 1..Len(parsedHostArrays[f]) :
                              parsedHostArrays[f][h].ip = ip } } :
            f \in 1..Len(parsedHostArrays) }

\* the identities listed for address ip in bucket key
ObservedIds(ip, key) ==
    UNION { UNION { { parsedHostArrays[f][h].vulnerabilities[key][k].pluginId :
                        k \in 1..Len(parsedHostArrays[f][h]
                                       .vulnerabilities[key]) } :
                    h \in { h \in 1..Len(parsedHostArrays[f]) :
                              parsedHostArrays[f][h].ip = ip } } :
            f \in 1..Len(parsedHostArrays) }

\* the number of findings listed in bucket key in all input host records
ListedIn(key) ==
    Cardinality(UNION { UNION { { <<f, h, k>> :
                        k \in 1..Len(parsedHostArrays[f][h]
                                       .vulnerabilities[key]) } :
                    h \in 1..Len(parsedHostArrays[f]) } :
            f \in 1..Len(parsedHostArrays) })

InputAt(o, key) == parsedHostArrays[o[1]][o[2]].vulnerabilities[key][o[3]]

MergedWithIp(ip) == {m \in 1..Len(mergedHosts) : mergedHosts[m].ip = ip}

EntriesWithId(m, key, pid) ==
    { k \in 1..Len(mergedHosts[m].vulnerabilities[key]) :
        mergedHosts[m].vulnerabilities[key][k].pluginId = pid }

\* ip, key, pid are listed exactly twice, in two different files
ListedInTwoFiles(ip, key, pid) ==
    /\ Cardinality(Observed(ip, key, pid)) = 2
    /\ \A o1, o2 \in Observed(ip, key, pid) : o1 /= o2 => o1[1] /= o2[1]

FirstListing(ip, key, pid) ==
    CHOOSE o \in Observed(ip, key, pid) :
        \A o2 \in Observed(ip, key, pid) : o[1] <= o2[1]

\* C1: first-seen wins.  When an address is listed in two parsed files and
\* each lists one finding of the same identity in the same bucket, the merged
\* host has exactly one finding of that identity there, with count 2 and the
\* title, description, solution and cvss of the file processed first; and
\* when these are the only findings of that severity, its total is 1.
FirstSeenWins ==
    Merged =>
      \A ip \in InputIps : \A key \in BucketKeys :
        \A pid \in ObservedIds(ip, key) :
          ListedInTwoFiles(ip, key, pid) =>
            /\ Cardinality(MergedWithIp(ip)) = 1
            /\ \A m \in MergedWithIp(ip) :
                 /\ Cardinality(EntriesWithId(m, key, pid)) = 1
                 /\ \A k \in EntriesWithId(m, key, pid) :
                      LET got == mergedHosts[m].vulnerabilities[key][k]
                          first == InputAt(FirstListing(ip, key, pid), key)
                      IN  /\ got.count = 2
                          /\ got.title = first.title
                          /\ got.description = first.description
                          /\ got.solution = first.solution
                          /\ got.cvss = first.cvss
            /\ (Totalled /\ ListedIn(key) = 2) => vulnerabilityTotals[key] = 1

\* C1 witness: File A lists 19506 with score 7.5 and File B lists it with
\* score 9.0 for 10.0.0.5; the report is done with one Critical finding of
\* count 2 and score 7.5
FirstSeenWinsWitness ==
    /\ pc = "done"
    /\ Len(parsedHostArrays) = 2
    /\ Len(parsedHostArrays[1]) = 1 /\ Len(parsedHostArrays[2]) = 1
    /\ parsedHostArrays[1][1].ip = Ip_10_0_0_5
    /\ parsedHostArrays[2][1].ip = Ip_10_0_0_5
    /\ Len(parsedHostArrays[1][1].vulnerabilities["critical"]) = 1
    /\ Len(parsedHostArrays[2][1].vulnerabilities["critical"]) = 1
    /\ parsedHostArrays[1][1].vulnerabilities["critical"][1].pluginId = "19506"
    /\ parsedHostArrays[2][1].vulnerabilities["critical"][1].pluginId = "19506"
    /\ parsedHostArrays[1][1].vulnerabilities["critical"][1].cvss = Score_7_5
    /\ parsedHostArrays[2][1].vulnerabilities["critical"][1].cvss = Score_9_0
    /\ Len(mergedHosts) = 1
    /\ Len(mergedHosts[1].vulnerabilities["critical"]) = 1
    /\ mergedHosts[1].vulnerabilities["critical"][1].count = 2
    /\ mergedHosts[1].vulnerabilities["critical"][1].cvss = Score_7_5
    /\ vulnerabilityTotals["critical"] = 1

\* C2: merging a host list with itself doubles every count and keeps the
\* number of distinct findings per host and bucket.
SelfMergeDoubles ==
    (Merged /\ Len(parsedHostArrays) = 1) =>
      LET L == parsedHostArrays[1]
          Doubled(once, twice) ==
              /\ Len(twice) = Len(once)
              /\ \A k2 \in 1..Len(twice) : \E k1 \in 1..Len(once) :
                    /\ twice[k2].pluginId = once[k1].pluginId
                    /\ twice[k2].count = 2 * once[k1].count
              /\ \A k1 \in 1..Len(once) : \E k2 \in 1..Len(twice) :
                    /\ twice[k2].pluginId = once[k1].pluginId
                    /\ twice[k2].count = 2 * once[k1].count
      IN  /\ ~mergeHostsThrows(<<L, L>>)
          /\ \A merged2 \in mergeHosts(<<L, L>>) :
                /\ Len(merged2) = Len(mergedHosts)
                /\ \A m \in 1..Len(mergedHosts) :
                     \E t \in 1..Len(merged2) :
                        /\ merged2[t].ip = mergedHosts[m].ip
                        /\ \A key \in BucketKeys :
                              Doubled(mergedHosts[m].vulnerabilities[key],
                                      merged2[t].vulnerabilities[key])

\* C3: no bucket of a merged host holds two findings of the same identity.
IdentityUnique ==
    Merged =>
      \A m \in 1..Len(mergedHosts) : \A key \in BucketKeys :
        \A k1, k2 \in 1..Len(mergedHosts[m].vulnerabilities[key]) :
          k1 /= k2 => mergedHosts[m].vulnerabilities[key][k1].pluginId
                        /= mergedHosts[m].vulnerabilities[key][k2].pluginId

\* C4: conservation.  The size of a merged host's bucket is the number of
\* distinct identities listed for its address in that bucket.
Conservation ==
    Merged =>
      \A m \in 1..Len(mergedHosts) : \A key \in BucketKeys :
        Len(mergedHosts[m].vulnerabilities[key])
          = Cardinality(ObservedIds(mergedHosts[m].ip, key))

\* C5: the count of a merged finding is at least 1 and is the number of
\* times its identity is listed for the host's address in that bucket.
CountIsObservations ==
    Merged =>
      \A m \in 1..Len(mergedHosts) : \A key \in BucketKeys :
        \A k \in 1..Len(mergedHosts[m].vulnerabilities[key]) :
          LET v == mergedHosts[m].vulnerabilities[key][k]
          IN  /\ v.count >= 1
              /\ v.count = Cardinality(Observed(mergedHosts[m].ip, key,
                                                v.pluginId))

\* the identities in a bucket
IdsOf(bucket) == {bucket[k].pluginId : k \in 1..Len(bucket)}

\* C6: the merged list has exactly one host per distinct address string of
\* the inputs; that host carries the identities listed for its address
\* string in any record of any list, and none listed for another string.
OneHostPerAddress ==
    Merged =>
      /\ {mergedHosts[m].ip : m \in 1..Len(mergedHosts)} = InputIps
      /\ \A ip \in InputIps : Cardinality(MergedWithIp(ip)) = 1
      /\ \A m \in 1..Len(mergedHosts) : \A key \in BucketKeys :
            IdsOf(mergedHosts[m].vulnerabilities[key])
              = ObservedIds(mergedHosts[m].ip, key)

\* C6 witness: one list holds two records for 10.0.0.2, one listing 19506
\* and one listing 10335 as Critical; the merged list has one host with both
OneHostPerAddressWitness ==
    /\ Merged
    /\ Len(parsedHostArrays) = 1
    /\ Len(parsedHostArrays[1]) = 2
    /\ parsedHostArrays[1][1].ip = Ip_10_0_0_2
    /\ parsedHostArrays[1][2].ip = Ip_10_0_0_2
    /\ IdsOf(parsedHostArrays[1][1].vulnerabilities["critical"]) = {"19506"}
    /\ IdsOf(parsedHostArrays[1][2].vulnerabilities["critical"]) = {"10335"}
    /\ Len(mergedHosts) = 1
    /\ IdsOf(mergedHosts[1].vulnerabilities["critical"]) = {"19506", "10335"}

\* a dotted string of four non-empty decimal segments
WellFormed(ip) ==
    /\ Len(ip) = 4
    /\ \A k \in 1..4 : ip[k] /= << >> /\ \A c \in 1..Len(ip[k]) :
                                            ip[k][c] \in Digits

\* ip1 is before ip2 by the four integer segments, left to right
SegmentsLess(ip1, ip2) ==
    \E k \in 1..4 :
        /\ \A j \in 1..(k - 1) : DecimalValue(ip1[j]) = DecimalValue(ip2[j])
        /\ DecimalValue(ip1[k]) < DecimalValue(ip2[k])

\* C7: when every address is a well-formed four-segment dotted numeric
\* string, the merged list is in ascending order of the four integer
\* segments, whatever the input order.
HostsAscending ==
    (Merged /\ \A m \in 1..Len(mergedHosts) : WellFormed(mergedHosts[m].ip)) =>
      \A a, b \in 1..Len(mergedHosts) :
        a < b => ~SegmentsLess(mergedHosts[b].ip, mergedHosts[a].ip)

\* C7 witness: 10.0.0.2, 10.0.0.10, 10.0.0.1 come out as 10.0.0.1,
\* 10.0.0.2, 10.0.0.10
HostsAscendingWitness ==
    /\ Merged
    /\ LET input == Flatten(parsedHostArrays)
       IN  /\ Len(input) = 3
           /\ input[1].ip = Ip_10_0_0_2
           /\ input[2].ip = Ip_10_0_0_10
           /\ input[3].ip = Ip_10_0_0_1
    /\ Len(mergedHosts) = 3
    /\ mergedHosts[1].ip = Ip_10_0_0_1
    /\ mergedHosts[2].ip = Ip_10_0_0_2
    /\ mergedHosts[3].ip = Ip_10_0_0_10

\* the places <<host, position>> of the findings of bucket key
FindingsIn(key) ==
    UNION { { <<m, k>> : k \in 1..Len(mergedHosts[m].vulnerabilities[key]) } :
            m \in 1..Len(mergedHosts) }

\* C8: each total is the sum over the merged hosts of that bucket's length,
\* and the five totals add up to the number of findings of all hosts.
TotalsAreBucketSums ==
    Totalled =>
      /\ \A key \in BucketKeys :
            vulnerabilityTotals[key] = Cardinality(FindingsIn(key))
      /\ vulnerabilityTotals["critical"] + vulnerabilityTotals["high"]
           + vulnerabilityTotals["medium"] + vulnerabilityTotals["low"]
           + vulnerabilityTotals["info"]
         = Cardinality(UNION { { <<key, o>> : o \in FindingsIn(key) } :
                               key \in BucketKeys })

\* C8 witness: two hosts, the first without a Critical finding and the
\* second with one of count 2; the Critical total is 1
TotalsAreBucketSumsWitness ==
    /\ Totalled
    /\ Len(mergedHosts) = 2
    /\ Len(mergedHosts[1].vulnerabilities["critical"]) = 0
    /\ Len(mergedHosts[1].vulnerabilities["info"]) = 1
    /\ Len(mergedHosts[2].vulnerabilities["critical"]) = 1
    /\ vulnerabilityTotals["critical"] = 1
    /\ vulnerabilityTotals["info"] = 1

\* the files among the first n that parse
ParsedAmong(n) == {k \in 1..n : files[k].ok}

\* the file that gave the j-th parsed host list
SourceOf(j) ==
    CHOOSE k \in 1..Len(files) :
        files[k].ok /\ Cardinality(ParsedAmong(k)) = j

\* C9: a file that fails to parse does not end the run.  The run is rejected
\* only after every file has had its turn; the host lists collected are
\* those of the files that parsed, in file order, each with one Host per
\* ReportHost node; and the merged list is mergeHosts of exactly these.
ParseFailureSkipsFile ==
    /\ i <= Len(files) + 1
    /\ pc /= "parse" => i = Len(files) + 1
    /\ Len(parsedHostArrays) = Cardinality(ParsedAmong(i - 1))
    /\ \A j \in 1..Len(parsedHostArrays) :
          /\ Len(parsedHostArrays[j]) = Len(files[SourceOf(j)].hosts)
          /\ parsedHostArrays[j] \in parseNessusFile(files[SourceOf(j)])
    /\ Merged => mergedHosts \in mergeHosts(parsedHostArrays)

\* C9 witness: the first file fails, the second gives a host, and the
\* report is done with that host
ParseFailureSkipsFileWitness ==
    /\ pc = "done"
    /\ Len(files) = 2
    /\ ~files[1].ok
    /\ files[2].ok
    /\ Len(files[2].hosts) = 1
    /\ Len(parsedHostArrays) = 1
    /\ Len(mergedHosts) = 1
    /\ mergedHosts[1].ip = HostIp(files[2].hosts[1])

\* no file of the invocation parses: the list is empty or every file fails
NothingParses == \A k \in 1..Len(files) : ~files[k].ok

\* C10: with an empty file list, or one whose files all fail to parse, the
\* invocation is not rejected and does not stop before it is done; the
\* merged list is empty, the five totals are 0 and the document has no
\* severity group.
EmptyRunResolves ==
    NothingParses =>
      /\ pc /= "rejected"
      /\ pc = "done" \/ ENABLED Next
      /\ Merged => mergedHosts = << >>
      /\ Totalled => \A key \in BucketKeys : vulnerabilityTotals[key] = 0
      /\ pc = "done" => sections = << >> /\ progress[Len(progress)] = 100

\* C10 witness: two files, both failing, and the report done and empty
EmptyRunResolvesWitness ==
    /\ pc = "done"
    /\ Len(files) = 2
    /\ NothingParses
    /\ mergedHosts = << >>
    /\ sections = << >>

\* C11: every value passed to the progress callback is an integer between 0
\* and 100, the values never decrease, 100 is passed only once the document
\* is synthesized, and it is then the last value.
ProgressMonotone ==
    /\ \A p \in 1..Len(progress) : progress[p] \in 0..100
    /\ \A p, q \in 1..Len(progress) : p < q => progress[p] <= progress[q]
    /\ \A p \in 1..Len(progress) :
          progress[p] = 100 => pc = "done" /\ p = Len(progress)
    /\ pc = "done" => progress /= << >> /\ progress[Len(progress)] = 100

\* C11 witness: a finished run over files of which some parse and some
\* fail, in which a value is repeated (the failing file) and one rises
ProgressMonotoneWitness ==
    /\ pc = "done"
    /\ \E k \in 1..Len(files) : files[k].ok
    /\ \E k \in 1..Len(files) : ~files[k].ok
    /\ progress[Len(progress)] = 100
    /\ \E p \in 1..(Len(progress) - 1) : progress[p] = progress[p + 1]
    /\ \E p \in 1..(Len(progress) - 2) : progress[p] < progress[p + 1]

\* the checkpoints an invocation has passed
CheckpointsPassed ==
    CASE pc = "parse"    -> i - 1
      [] pc = "rejected" -> Len(files)
      [] pc = "totals"   -> Len(files) + 1
      [] pc = "synth"    -> Len(files) + 2
      [] pc = "done"     -> Len(files) + 3

\* the files parsed and the stages finished at checkpoint p
CompletedAt(p) ==
    IF p <= Len(files) THEN Cardinality(ParsedAmong(p))
    ELSE Cardinality(ParsedAmong(Len(files))) + (p - Len(files))

\* C12: for n files the callback is notified once per checkpoint, in the
\* order file 1..n, aggregation, totals, synthesis (n + 3 times when done);
\* the value at each checkpoint before the last is
\* floor(100 * completed / (n + 3)), completed counting the files that
\* parsed and the stages finished, and the last value is 100.
ProgressCheckpoints ==
    /\ Len(progress) = CheckpointsPassed
    /\ \A p \in 1..Len(progress) :
          progress[p] = IF p = Len(files) + 3 THEN 100
                        ELSE (100 * CompletedAt(p)) \div (Len(files) + 3)

\* the file loop takes the files one at a time: no call is pending for a
\* file other than files[i], and none once the loop is left
OneFileAtATime ==
    /\ reading \subseteq ({i} \cap (1..Len(files)))
    /\ pc /= "parse" => reading = {} /\ i = Len(files) + 1
    /\ Len(progress) >= i - 1

\* a step that starts a call starts it for files[i] with none pending; a
\* step that hands a host list over appends a list of files[i], whose call
\* was pending, and moves on to file i + 1; mergeHosts starts after the last
\* file and gets the lists as collected
InFileOrder ==
    /\ reading' /= reading =>
          \/ reading = {} /\ reading' = {i} /\ i' = i
          \/ reading = {i} /\ reading' = {} /\ i' = i + 1
    /\ parsedHostArrays' /= parsedHostArrays =>
          /\ reading = {i} /\ files[i].ok
          /\ \E hs \in parseNessusFile(files[i]) :
                parsedHostArrays' = Append(parsedHostArrays, hs)
    /\ pc' /= pc /\ pc = "parse" =>
          /\ i = Len(files) + 1 /\ reading = {}
          /\ parsedHostArrays' = parsedHostArrays
          /\ pc' = "totals" => mergedHosts' \in mergeHosts(parsedHostArrays)

\* C13: file normalization is strictly sequential in file-list order: the
\* normalization of a file starts only when that of the file before it has
\* returned or failed, aggregation starts only when that of the last file
\* has ended, and the aggregator gets the host lists in file-list order.
FilesInTurn == []OneFileAtATime /\ [][InFileOrder]_vars

\* C13 witness: the first of two files has returned a host and the call for
\* the second is pending
FilesInTurnWitness ==
    /\ pc = "parse"
    /\ Len(files) = 2
    /\ i = 2 /\ reading = {2}
    /\ files[1].ok
    /\ Len(parsedHostArrays) = 1
    /\ Len(parsedHostArrays[1]) = 1

\* the numbers printed in the headings of the document, in document order
RECURSIVE PrintedNumbers(_)
PrintedNumbers(groups) ==
    IF groups = << >> THEN << >>
    ELSE [j \in 1..Len(Head(groups).entries) |->
              Head(groups).entries[j].number]
         \o PrintedNumbers(Tail(groups))

\* the place of a severity in Critical, High, Medium, Low, Info
Rank(key) == CHOOSE k \in 1..Len(severityOrder) : severityOrder[k] = key

\* the groups of the document follow the severity order
GroupsInSeverityOrder ==
    \A g, h \in 1..Len(sections) :
        g < h => Rank(sections[g].severity) < Rank(sections[h].severity)

\* C14: the numbers printed for the findings of a document are 1, 2, ..., N
\* without gap or repeat, N the number of findings, running across the
\* severity sections in the order Critical, High, Medium, Low, Info.
NumbersFromOne ==
    pc = "done" =>
      LET ns == PrintedNumbers(sections)
      IN  /\ Len(ns) = Cardinality(UNION { { <<key, o>> : o \in FindingsIn(key) } :
                                          key \in BucketKeys })
          /\ \A k \in 1..Len(ns) : ns[k] = k
          /\ GroupsInSeverityOrder

\* the findings of bucket key in the hosts before host m
Before(m, key) == Cardinality({o \in FindingsIn(key) : o[1] < m})

\* C15: the document has a severity section exactly for the severities
\* whose total is above 0, in the order Critical, High, Medium, Low, Info,
\* and a section lists every finding of its severity of every host once,
\* hosts in the order of the aggregated list and findings in bucket order.
SectionsPerSeverity ==
    pc = "done" =>
      /\ {sections[g].severity : g \in 1..Len(sections)}
            = {key \in BucketKeys : vulnerabilityTotals[key] > 0}
      /\ GroupsInSeverityOrder
      /\ \A g \in 1..Len(sections) :
            LET key == sections[g].severity
            IN  /\ Len(sections[g].entries) = Cardinality(FindingsIn(key))
                /\ \A o \in FindingsIn(key) :
                      sections[g].entries[Before(o[1], key) + o[2]].vuln
                        = mergedHosts[o[1]].vulnerabilities[key][o[2]]

\* C15 witness: two hosts with one Critical finding each, of different
\* identities, and one section that lists the two in host order
SectionsPerSeverityWitness ==
    /\ pc = "done"
    /\ Len(mergedHosts) = 2
    /\ Len(mergedHosts[1].vulnerabilities["critical"]) = 1
    /\ Len(mergedHosts[2].vulnerabilities["critical"]) = 1
    /\ mergedHosts[1].vulnerabilities["critical"][1].pluginId
         /= mergedHosts[2].vulnerabilities["critical"][1].pluginId
    /\ Len(sections) = 1
    /\ sections[1].severity = "critical"
    /\ Len(sections[1].entries) = 2
    /\ sections[1].entries[1].vuln = mergedHosts[1].vulnerabilities["critical"][1]
    /\ sections[1].entries[2].vuln = mergedHosts[2].vulnerabilities["critical"][1]

AllDigits(s) == s /= << >> /\ \A k \in 1..Len(s) : s[k] \in Digits

\* what C16 says of a severity attribute: "" where it says nothing (a number
\* followed by other characters)
ClaimedCategory(s) ==
    IF s = << >> THEN "Info"
    ELSE IF AllDigits(s)
         THEN CASE DecimalValue(s) = 4 -> "Critical"
                [] DecimalValue(s) = 3 -> "High"
                [] DecimalValue(s) = 2 -> "Medium"
                [] DecimalValue(s) = 1 -> "Low"
                [] OTHER -> "Info"
    ELSE IF Head(s) = "-" /\ AllDigits(Tail(s)) THEN "Info"
    ELSE IF Head(s) \notin Digits
            /\ ~(Head(s) = "-" /\ Len(s) >= 2 /\ s[2] \in Digits) THEN "Info"
    ELSE ""

\* the places <<bucket, position>> of the findings of a host record
PlacesOf(host) ==
    UNION { { <<key, k>> : k \in 1..Len(host.vulnerabilities[key]) } :
            key \in BucketKeys }

InOwnBucket(host) ==
    \A o \in PlacesOf(host) :
        ToLowerCase(host.vulnerabilities[o[1]][o[2]].severity) = o[1]

\* C17: in every host the normalizer gives and in every host mergeHosts
\* gives, each finding sits in exactly one of the five buckets, the one of
\* its severity field, and the host's findings number the sum of the five
\* bucket sizes; a merged finding sits in the bucket it was listed in.
BucketsMatchSeverity ==
    /\ \A j \in 1..Len(parsedHostArrays) : \A h \in 1..Len(parsedHostArrays[j]) :
          LET host == parsedHostArrays[j][h]
          IN  /\ InOwnBucket(host)
              /\ Cardinality(PlacesOf(host))
                    = Len(files[SourceOf(j)].hosts[h].items)
              /\ Cardinality(PlacesOf(host))
                    = Len(host.vulnerabilities["critical"])
                      + Len(host.vulnerabilities["high"])
                      + Len(host.vulnerabilities["medium"])
                      + Len(host.vulnerabilities["low"])
                      + Len(host.vulnerabilities["info"])
    /\ Merged =>
          \A m \in 1..Len(mergedHosts) :
            LET host == mergedHosts[m]
            IN  /\ InOwnBucket(host)
                /\ \A o \in PlacesOf(host) :
                      host.vulnerabilities[o[1]][o[2]].pluginId
                        \in ObservedIds(host.ip, o[1])
                /\ Cardinality(PlacesOf(host))
                      = Len(host.vulnerabilities["critical"])
                        + Len(host.vulnerabilities["high"])
                        + Len(host.vulnerabilities["medium"])
                        + Len(host.vulnerabilities["low"])
                        + Len(host.vulnerabilities["info"])

\* C17 witness: two records of one address list identity 19506, one as
\* Critical and one as High; the merged host holds it once in each bucket
BucketsMatchSeverityWitness ==
    /\ Merged
    /\ Len(Flatten(parsedHostArrays)) = 2
    /\ Len(mergedHosts) = 1
    /\ IdsOf(Flatten(parsedHostArrays)[1].vulnerabilities["critical"]) = {"19506"}
    /\ IdsOf(Flatten(parsedHostArrays)[2].vulnerabilities["high"]) = {"19506"}
    /\ IdsOf(mergedHosts[1].vulnerabilities["critical"]) = {"19506"}
    /\ IdsOf(mergedHosts[1].vulnerabilities["high"]) = {"19506"}
    /\ Len(mergedHosts[1].vulnerabilities["critical"]) = 1
    /\ Len(mergedHosts[1].vulnerabilities["high"]) = 1

\* the score as a number, in tenths: 0 when it cannot be parsed
ScoreOrZero(v) == IF ParseFloat(v.cvss) = NaN THEN 0 ELSE ParseFloat(v.cvss)

\* the input host records with address ip
RecordsWithIp(ip) ==
    {k \in 1..Len(Flatten(parsedHostArrays)) :
        Flatten(parsedHostArrays)[k].ip = ip}

\* C18: a list returned by mergeAndCountVulnerabilities (a bucket of a
\* merged host whose address is listed in two records or more) is in
\* descending order of count, and among equal counts in descending order of
\* score, a score that does not parse as a number taken as 0.
BucketsSorted ==
    Merged =>
      \A m \in 1..Len(mergedHosts) :
        Cardinality(RecordsWithIp(mergedHosts[m].ip)) >= 2 =>
          \A key \in BucketKeys :
            LET vs == mergedHosts[m].vulnerabilities[key]
            IN  \A a, b \in 1..Len(vs) :
                  a < b =>
                    \/ vs[a].count > vs[b].count
                    \/ /\ vs[a].count = vs[b].count
                       /\ ScoreOrZero(vs[a]) >= ScoreOrZero(vs[b])

\* C19: the caller can tell the two failures apart.  A run in which files
\* fail to parse and no later stage throws goes on until it resolves with
\* the document, after a last notification of 100; when mergeHosts throws
\* the call is rejected for good, without document and without a
\* notification of 100; and the call is rejected in no other case.
FailuresDistinguishable ==
    /\ pc = "rejected" =>
          /\ i = Len(files) + 1
          /\ mergeHostsThrows(parsedHostArrays)
          /\ \A p \in 1..Len(progress) : progress[p] /= 100
          /\ sections = << >>
          /\ ~ENABLED Next
    /\ (pc /= "parse" /\ mergeHostsThrows(parsedHostArrays)) => pc = "rejected"
    /\ (\E k \in 1..Len(files) : ~files[k].ok) =>
          /\ (pc = "parse" /\ i <= Len(files)) =>
                \/ ENABLED ReadFile
                \/ i \in reading /\ ~files[i].ok
                \/ i \in reading /\ parseNessusFile(files[i]) /= {}
          /\ (pc = "parse" /\ i > Len(files)) =>
                \/ mergeHostsThrows(parsedHostArrays)
                \/ mergeHosts(parsedHostArrays) /= {}
          /\ pc = "totals" => ENABLED Totals
          /\ pc = "synth" => ENABLED Synthesize
    /\ pc = "done" =>
          /\ progress[Len(progress)] = 100
          /\ ~mergeHostsThrows(parsedHostArrays)

\* C19 witness: the first file failed to parse, the second gave two hosts
\* of which one has no address, and the call is rejected
FailuresDistinguishableWitness ==
    /\ pc = "rejected"
    /\ Len(files) = 2
    /\ ~files[1].ok
    /\ Len(parsedHostArrays) = 1
    /\ Len(parsedHostArrays[1]) = 2
    /\ \E h \in 1..2 : parsedHostArrays[1][h].ip = Undefined
    /\ Len(progress) = 2

\* C20: mergeHosts never mutates its inputs.  The step that runs mergeHosts
\* leaves every input host list, Host record, bucket array and Finding
\* record, its count included, as it was, for any number of lists and any
\* overlap of addresses and identities.
InputsUntouched ==
    [][(pc = "parse" /\ i > Len(files)) => parsedHostArrays' = parsedHostArrays]_vars

\* C20 witness: two lists list identity 19506 for one address; the merged
\* finding has count 2 and the two input findings still have count 1
InputsUntouchedWitness ==
    /\ Merged
    /\ Len(parsedHostArrays) = 2
    /\ Len(parsedHostArrays[1]) = 1 /\ Len(parsedHostArrays[2]) = 1
    /\ parsedHostArrays[1][1].ip = parsedHostArrays[2][1].ip
    /\ Len(parsedHostArrays[1][1].vulnerabilities["high"]) = 1
    /\ Len(parsedHostArrays[2][1].vulnerabilities["high"]) = 1
    /\ parsedHostArrays[1][1].vulnerabilities["high"][1].pluginId = "19506"
    /\ parsedHostArrays[2][1].vulnerabilities["high"][1].pluginId = "19506"
    /\ Len(mergedHosts) = 1
    /\ Len(mergedHosts[1].vulnerabilities["high"]) = 1
    /\ mergedHosts[1].vulnerabilities["high"][1].count = 2
    /\ parsedHostArrays[1][1].vulnerabilities["high"][1].count = 1
    /\ parsedHostArrays[2][1].vulnerabilities["high"][1].count = 1

\* the files among the first n whose content is a Nessus document
InDialectAmong(n) == {k \in 1..n : files[k].ok /\ files[k].root}

\* C21: parseNessusFile returns a host list or fails; for a file whose
\* content is not of the expected dialect (no NessusClientData_v2/Report
\* root) it fails and returns no host list, so the host lists collected are
\* those of the files read so far that are Nessus documents.
DialectChecked ==
    Len(parsedHostArrays) = Cardinality(InDialectAmong(i - 1))

\* the address the host-ip rule gives a ReportHost node: the text of the
\* host-ip entry of a property list that has one, else the displayName
ClaimedAddress(reportHost) ==
    LET displayName == OrElse(reportHost.name, EmptyString)
        hits == {k \in 1..Len(reportHost.tags) :
                    reportHost.tags[k].name = "host-ip"}
        first == CHOOSE k \in hits : \A l \in hits : k <= l
    IN  IF reportHost.shape = "list" /\ hits /= {}
        THEN reportHost.tags[first].text
        ELSE displayName

\* C22: the address of a normalized host is the text of the host-ip entry
\* when the property list is a list with such an entry, and the displayName
\* when the list has none or when the property node is a single bare
\* object; it is always a defined string.
AddressRule ==
    \A j \in 1..Len(parsedHostArrays) :
        \A h \in 1..Len(parsedHostArrays[j]) :
            /\ parsedHostArrays[j][h].ip /= Undefined
            /\ parsedHostArrays[j][h].ip =
                  ClaimedAddress(files[SourceOf(j)].hosts[h])

\* entry a of a bucket may stand before entry b: a higher count, or the same
\* count and a score that is not lower
MayPrecede(a, b) ==
    \/ CountOr1(a) > CountOr1(b)
    \/ CountOr1(a) = CountOr1(b) /\ ParseFloat(a.cvss) >= ParseFloat(b.cvss)

\* C23: in the list returned by mergeHosts every bucket of every host is in
\* bucket order (descending count, ties by descending score) and not in
\* insertion order, the buckets of a host listed in one record only
\* included.  Entries whose score does not parse are left out of the
\* comparison.
EveryBucketInOrder ==
    Merged =>
      \A m \in 1..Len(mergedHosts) : \A key \in BucketKeys :
        LET vs == mergedHosts[m].vulnerabilities[key]
        IN  \A a, b \in 1..Len(vs) :
              (a < b /\ ParseFloat(vs[a].cvss) /= NaN
                     /\ ParseFloat(vs[b].cvss) /= NaN)
                => MayPrecede(vs[a], vs[b])

\* the findings without scanner identifier that the record h of list f
\* holds in bucket key
Unidentified(f, h, key) ==
    {k \in 1..Len(parsedHostArrays[f][h].vulnerabilities[key]) :
        parsedHostArrays[f][h].vulnerabilities[key][k].pluginId = ""}

\* the generated identifiers held by the merged host of address ip in
\* bucket key
KeptIds(ip, key) ==
    UNION { {mergedHosts[m].vulnerabilities[key][k].id :
                k \in 1..Len(mergedHosts[m].vulnerabilities[key])} :
            m \in {n \in 1..Len(mergedHosts) : mergedHosts[n].ip = ip} }

\* C24: findings are de-duplicated by the identifier that the normalizer
\* generates at random when the scanner gave none: two findings without
\* scanner identifier, of one address and one severity, listed in different
\* files and given different generated identifiers, are both kept in the
\* merged bucket.
GeneratedIdsKept ==
    Merged =>
      \A f1, f2 \in 1..Len(parsedHostArrays) :
        \A h1 \in 1..Len(parsedHostArrays[f1]) :
          \A h2 \in 1..Len(parsedHostArrays[f2]) :
            \A key \in BucketKeys :
              LET r1 == parsedHostArrays[f1][h1]
                  r2 == parsedHostArrays[f2][h2]
              IN  \A k1 \in Unidentified(f1, h1, key) :
                    \A k2 \in Unidentified(f2, h2, key) :
                      (/\ f1 < f2
                       /\ r1.ip = r2.ip
                       /\ r1.vulnerabilities[key][k1].id
                             /= r2.vulnerabilities[key][k2].id)
                      => {r1.vulnerabilities[key][k1].id,
                          r2.vulnerabilities[key][k2].id}
                            \subseteq KeptIds(r1.ip, key)

\* what a merged list says regardless of order and texts: its addresses and
\* the identities of each address and severity with their counts
Tally(hosts) ==
    [ addresses |-> {hosts[m].ip : m \in 1..Len(hosts)},
      counts    |-> UNION { UNION { { <<hosts[m].ip, key,
                                        hosts[m].vulnerabilities[key][k].pluginId,
                                        CountOr1(hosts[m].vulnerabilities[key][k])>> :
                                      k \in 1..Len(hosts[m].vulnerabilities[key]) } :
                                    key \in BucketKeys } :
                            m \in 1..Len(hosts) } ]

\* the input lists in the order p
Reordered(hostArrays, p) == [k \in 1..Len(hostArrays) |-> hostArrays[p[k]]]

\* C25: the order of the input lists decides only whose text fields win:
\* for every permutation of the input lists mergeHosts gives the same set
\* of addresses and, per address and severity, the same identities with the
\* same counts as for the lists in the order given.
OrderOnlyPicksTexts ==
    Merged =>
      \A p \in Orderings(1..Len(parsedHostArrays)) :
        \A merged \in mergeHosts(Reordered(parsedHostArrays, p)) :
            Tally(merged) = Tally(mergedHosts)

\* C26: the content of the files cannot make the invocation fail: whatever
\* host lists parseNessusFile has returned, mergeHosts with its host sort
\* does not throw on them, and the invocation is never rejected.
ContentNeverFatal ==
    /\ (pc = "parse" /\ i > Len(files)) => ~mergeHostsThrows(parsedHostArrays)
    /\ pc /= "rejected"

\* a call is pending exactly while the page shows 'generating', there is
\* never a second one, and the submit control is then disabled
OneCallPending ==
    /\ Cardinality(inFlight) <= 1
    /\ (appState = "generating") <=> (inFlight /= {})
    /\ appState = "generating" => ~ENABLED Submit

\* a call starts only when none is pending, with the files of the page, and
\* shows 'generating'; 'generating' ends only when the call settles, with
\* 'success' and its Blob when it resolves and with 'error' when it rejects
CallsBracketed ==
    /\ runs' /= runs =>
          /\ inFlight = {}
          /\ inFlight' = {[run |-> runs', files |-> indexFiles]}
          /\ appState' = "generating"
    /\ inFlight' /= inFlight /\ runs' = runs =>
          /\ inFlight' = {}
          /\ appState' \in {"success", "error"}
          /\ appState' = "success" <=> lastResolved' /= lastResolved
          /\ appState' = "success" => \A call \in inFlight : reportBlob' = call.run
    /\ appState = "generating" /\ appState' /= "generating" =>
          inFlight' /= inFlight

\* C27: the Index page never has two generateReport calls pending: appState
\* is 'generating' from the start of a call until it settles, the submit
\* control is disabled meanwhile, and the call ends with appState 'success'
\* when it resolves and 'error' when it rejects, whatever the user does with
\* the files in between.
SingleInvocation == []OneCallPending /\ [][CallsBracketed]_vars

\* C27 witness: the second call of the page is pending, the first having
\* resolved, and the file list has changed since the call was made
SingleInvocationWitness ==
    /\ appState = "generating"
    /\ runs = 2
    /\ lastResolved = 1
    /\ \E call \in inFlight : call.run = 2 /\ call.files /= indexFiles

\* C28: after any selections, removals, remove-all and resets the file list
\* held by the Index page, which the next submit passes to generateReport,
\* is the list held and shown by the FileUpload.
ListsAgree == indexFiles = uploadFiles

\* in 'success' the page holds the Blob of the last call made, which
\* resolved, and no call is pending
BlobIsLatest ==
    appState = "success" =>
      /\ reportBlob /= Null
      /\ reportBlob = lastResolved
      /\ lastResolved = runs
      /\ inFlight = {}

\* a download hands over the Blob of the last call made
DownloadsLatest ==
    downloaded' /= downloaded =>
      /\ downloaded' = lastResolved
      /\ lastResolved = runs

\* C29: whenever appState is 'success', reportBlob is not null and is the
\* Blob returned by the most recent call that resolved, never that of an
\* earlier run, and that is the Blob a download hands over, whatever
\* submits, uploads, resets and failed runs came before.
SuccessShowsLatest == []BlobIsLatest /\ [][DownloadsLatest]_vars

\* C29 witness: the first report was downloaded, the second run failed and
\* the third resolved; the page shows the third
SuccessShowsLatestWitness ==
    /\ appState = "success"
    /\ runs = 3
    /\ lastResolved = 3
    /\ reportBlob = 3
    /\ downloaded = 1

\* the name ends in .nessus or .xml, in any case
HasAcceptedExtension(name) ==
    /\ Len(name) >= 2
    /\ <<".">> \o LowerCaseChars(name[Len(name)]) \in acceptedFileTypes

\* at most maxFiles files are held and each has an accepted extension
HeldFilesAccepted ==
    /\ Len(uploadFiles) <= maxFiles
    /\ \A k \in 1..Len(uploadFiles) : HasAcceptedExtension(uploadFiles[k])

\* the held list grows only by the whole of a selection's valid files, within
\* maxFiles, and the Index page gets the same list
GrowsByWholeSelection ==
    Len(uploadFiles') > Len(uploadFiles) =>
      /\ Len(uploadFiles') <= maxFiles
      /\ indexFiles' = uploadFiles'
      /\ \E selectedFiles \in Selections :
            uploadFiles' = uploadFiles \o validateFiles(selectedFiles)

\* C30: after any drops, selections and removals the FileUpload holds at
\* most maxFiles files, each with an accepted extension (.nessus or .xml in
\* any case); a selection that would exceed maxFiles adds none of its files
\* and leaves both lists as they are.
HeldFilesWithinLimits == []HeldFilesAccepted /\ [][GrowsByWholeSelection]_vars
====
